---- MODULE Spec2Model ----
(***************************************************************************)
(* State-machine model of the CYW43907 TCP server (src/tcp_server.c).      *)
(*                                                                         *)
(* Three execution contexts share the globals client_handle,               *)
(* client_connected and led_state without any lock:                        *)
(*   - the worker task tcp_server_task (setup, then the dispatch loop),    *)
(*   - the socket-event callback context that runs tcp_connection_handler, *)
(*     tcp_receive_msg_handler and tcp_disconnection_handler,              *)
(*   - the GPIO interrupt isr_button_press.                                *)
(* The worker and the callback context are separate threads, so each is    *)
(* modelled with a program counter and advances one library call or one    *)
(* shared-variable access at a time.  The interrupt runs to completion.    *)
(***************************************************************************)
EXTENDS Integers, FiniteSets, Sequences, TLC

\* ------------------------------------------------------------------ bounds
\* Number of peer sockets cy_socket_accept can hand out in one run.
MaxHandles == 2

\* --------------------------------------------------------- program constants
MAX_WIFI_CONN_RETRIES == 10
TCP_SERVER_PORT == 50007
LED_ON_CMD == 49
LED_OFF_CMD == 48
TCP_LED_CMD_LEN == 1

\* cy_rslt_t values the code distinguishes: success, the secure-sockets
\* "closed" code, and every other error.
CY_RSLT_SUCCESS == "SUCCESS"
CY_RSLT_MODULE_SECURE_SOCKETS_CLOSED == "CLOSED"
CY_RSLT_OTHER_ERROR == "OTHER"
Results == {CY_RSLT_SUCCESS, CY_RSLT_MODULE_SECURE_SOCKETS_CLOSED, CY_RSLT_OTHER_ERROR}

\* Peer socket handles; 0 is the value of the zero-initialised global.
Handles == 1..MaxHandles
NoHandle == 0

\* line 97: size of message_buffer and of one cy_socket_recv request
MAX_TCP_RECV_BUFFER_SIZE == 20

\* line 638: the bytes of the literal "LED ON ACK"
LedOnAck == <<76, 69, 68, 32, 79, 78, 32, 65, 67, 75>>

\* The bytes of "LED OFF ACK"
LedOffAck == <<76, 69, 68, 32, 79, 70, 70, 32, 65, 67, 75>>

\* The two acknowledgements of the LED protocol.
Messages == {LedOnAck, LedOffAck}

\* The prefixes of a byte string.
Prefixes(str) == {SubSeq(str, 1, n) : n \in 0..Len(str)}

\* Byte strings an arbitrary peer may send, 0 to 21 bytes long: the prefixes
\* of "LED ON ACK" followed by 'A's, of "LED ON ACK" followed by a NUL byte
\* and 'A's, of "led on ack" followed by 'a's, and of "LED OFF ACK" followed
\* by 'A's.
PeerData ==
    Prefixes(LedOnAck \o [i \in 1..11 |-> 65])
      \cup Prefixes(LedOnAck \o <<0>> \o [i \in 1..10 |-> 65])
      \cup Prefixes(<<108, 101, 100, 32, 111, 110, 32, 97, 99, 107>> \o [i \in 1..11 |-> 97])
      \cup Prefixes(LedOffAck \o [i \in 1..10 |-> 65])

VARIABLES
    \* globals of tcp_server.c
    client_handle,      \* cy_socket_t client_handle
    client_connected,   \* bool client_connected
    led_state,          \* bool led_state (TRUE = CYBSP_LED_STATE_ON)
    tcp_server_port,    \* tcp_server_addr.port
    \* worker task tcp_server_task
    w_pc,               \* position of the worker
    led_state_cmd,      \* local led_state_cmd
    conn_retries,       \* connect_to_wifi_ap: conn_retries
    wifi_result,        \* connect_to_wifi_ap: result
    \* task notification of server_task_handle
    notifyPending,      \* notification state is "received, not yet taken"
    notifyValue,        \* notification value
    notifyDropped,      \* xTaskNotifyFromISR returned pdFAIL since the pending post
    \* user button CYBSP_SW1
    irq_enabled,        \* falling-edge event enabled
    pressed,            \* pin is low (cyhal_gpio_read returns 0)
    \* socket library
    hstate,             \* state of every peer socket
    releasedTwice,      \* cy_socket_delete was called on a socket already deleted
    \* callback context
    cb_pc,              \* position of the callback thread
    cb_handle,          \* socket_handle argument of the running handler
    message_buffer,     \* tcp_receive_msg_handler: message_buffer[20]
    bytes_received,     \* tcp_receive_msg_handler: bytes_received
    \* observation of the current worker iteration
    iter_sample,        \* what the re-sample after the debounce delay saw
    iter_sends,         \* number of cy_socket_send calls in this iteration
    iter_path,          \* outcome of the iteration
    lastSend            \* the last cy_socket_send call

vars == <<client_handle, client_connected, led_state, tcp_server_port,
          w_pc, led_state_cmd, conn_retries, wifi_result,
          notifyPending, notifyValue, notifyDropped, irq_enabled, pressed,
          hstate, releasedTwice, cb_pc, cb_handle,
          message_buffer, bytes_received,
          iter_sample, iter_sends, iter_path, lastSend>>

globals == <<client_handle, client_connected, led_state, tcp_server_port>>
workerLocals == <<led_state_cmd, conn_retries, wifi_result>>
notification == <<notifyPending, notifyValue, notifyDropped>>
sockets == <<hstate, releasedTwice>>
rxLocals == <<message_buffer, bytes_received>>
callback == <<cb_pc, cb_handle, rxLocals>>
iteration == <<iter_sample, iter_sends, iter_path>>

CreatePcs == {"create_socket", "set_rcvtimeo", "reg_connect_cb",
              "reg_receive_cb", "reg_disconnect_cb", "bind"}
SetupPcs == {"gpio_init", "wcm_init", "connect_wifi", "socket_init", "listen"}
                \cup CreatePcs
LoopPcs == {"wait", "disable", "debounce", "check_connected", "send",
            "teardown", "enable"}

\* The server socket is listening once cy_socket_listen has succeeded.
Listening == w_pc \in LoopPcs

\* A peer socket is live when it was accepted and neither disconnected nor
\* deleted since.
Live(h) == h \in Handles /\ hstate[h] = "open"

\* The socket cy_socket_accept returns next.
FreshHandles == {h \in Handles : hstate[h] = "unused"}
NextHandle == CHOOSE h \in FreshHandles : \A g \in FreshHandles : h <= g

\* cy_socket_disconnect(h, 0) followed by cy_socket_delete(h): the socket is
\* released.
SockRelease(hs, h) ==
    IF h \in Handles /\ hs[h] # "unused" THEN [hs EXCEPT ![h] = "deleted"] ELSE hs

\* Whether the release of h deletes a socket that was deleted before.
ReleasedAgain(hs, h) == h \in Handles /\ hs[h] = "deleted"

\* Value of lastSend while the current iteration has not sent.
NoSend ==
    [handle |-> NoHandle, cmd |-> 0, len |-> 0, bytes |-> << >>, live |-> FALSE,
     led |-> FALSE]

\* line 623: char message_buffer[MAX_TCP_RECV_BUFFER_SIZE] = {0}
EmptyBuffer == [i \in 1..MAX_TCP_RECV_BUFFER_SIZE |-> 0]

Init ==
    /\ client_handle = NoHandle
    /\ client_connected = FALSE
    /\ led_state = FALSE
    /\ tcp_server_port = 0
    /\ w_pc = "gpio_init"
    /\ led_state_cmd = LED_OFF_CMD
    /\ conn_retries = 0
    /\ wifi_result = CY_RSLT_SUCCESS
    /\ notifyPending = FALSE
    /\ notifyValue = 0
    /\ notifyDropped = FALSE
    /\ irq_enabled = FALSE
    /\ pressed = FALSE
    /\ hstate = [h \in Handles |-> "unused"]
    /\ releasedTwice = FALSE
    /\ cb_pc = "idle"
    /\ cb_handle = NoHandle
    /\ message_buffer = EmptyBuffer
    /\ bytes_received = 0
    /\ iter_sample = "none"
    /\ iter_sends = 0
    /\ iter_path = "none"
    /\ lastSend = NoSend

\* ------------------------------------------------------------ worker: setup
\* Abort with the assertion ignored: the task goes on into the loop.
AbortIgnored ==
    /\ w_pc' = "wait"

\* CY_ASSERT(0) after a failed setup step: the task halts.
Abort ==
    /\ w_pc' = "aborted"

\* lines 183-185: button initialised, ISR registered, falling edge enabled
GpioInit ==
    /\ w_pc = "gpio_init"
    /\ irq_enabled' = TRUE
    /\ w_pc' = "wcm_init"
    /\ UNCHANGED <<globals, workerLocals, notification, pressed, sockets,
                   callback, iteration, lastSend>>

\* lines 188-195: cy_wcm_init
WcmInit ==
    /\ w_pc = "wcm_init"
    /\ \E r \in {CY_RSLT_SUCCESS, CY_RSLT_OTHER_ERROR} :
          IF r = CY_RSLT_SUCCESS THEN w_pc' = "connect_wifi" ELSE Abort
    /\ conn_retries' = 0
    /\ UNCHANGED <<globals, led_state_cmd, wifi_result, notification, irq_enabled, pressed,
                   sockets, callback, iteration, lastSend>>

\* Errors cy_wcm_connect_ap can return.
JoinErrors == {"CY_RSLT_WCM_ERROR_A", "CY_RSLT_WCM_ERROR_B"}

\* MayRetry with the bound included.
MayRetryInclusive(n) == n <= MAX_WIFI_CONN_RETRIES

\* line 350: the condition of the join loop
MayRetry(n) == n < MAX_WIFI_CONN_RETRIES

\* lines 350-370: one pass of the join loop of connect_to_wifi_ap, the
\* lengths of WIFI_SSID and WIFI_PASSWORD (lines 79-80) having passed the
\* checks of lines 329-339.  The counter is a local of the function: it is
\* gone when the function returns success.
connect_to_wifi_ap_attempt ==
    /\ w_pc = "connect_wifi"
    /\ MayRetry(conn_retries)
    /\ \E r \in {CY_RSLT_SUCCESS} \cup JoinErrors :
          /\ wifi_result' = r
          /\ IF r = CY_RSLT_SUCCESS
             THEN /\ tcp_server_port' = TCP_SERVER_PORT
                  /\ w_pc' = "socket_init"
                  /\ conn_retries' = 0
             ELSE /\ conn_retries' = conn_retries + 1
                  /\ UNCHANGED <<tcp_server_port, w_pc>>
    /\ UNCHANGED <<client_handle, client_connected, led_state, led_state_cmd,
                   notification, irq_enabled, pressed, sockets, callback,
                   iteration, lastSend>>

\* lines 372-375 and 209-213: retries exhausted, the last error is returned
connect_to_wifi_ap_exhausted ==
    /\ w_pc = "connect_wifi"
    /\ ~MayRetry(conn_retries)
    /\ Abort
    /\ UNCHANGED <<globals, workerLocals, notification, irq_enabled, pressed,
                   sockets, callback, iteration, lastSend>>

\* lines 217-223: cy_socket_init
SocketInit ==
    /\ w_pc = "socket_init"
    /\ \E r \in {CY_RSLT_SUCCESS, CY_RSLT_OTHER_ERROR} :
          IF r = CY_RSLT_SUCCESS THEN w_pc' = "create_socket" ELSE Abort
    /\ UNCHANGED <<globals, led_state_cmd, conn_retries, wifi_result, notification,
                   irq_enabled, pressed, sockets, callback, iteration, lastSend>>

\* One call of create_tcp_server_socket: on failure the function returns the
\* error (lines 453-457, 463-467, 476-480, 489-493, 502-506, 510-516) and
\* the task asserts (lines 227-231)
CreateStep(here, next) ==
    /\ w_pc = here
    /\ \E r \in {CY_RSLT_SUCCESS, CY_RSLT_OTHER_ERROR} :
          IF r = CY_RSLT_SUCCESS THEN w_pc' = next ELSE Abort
    /\ UNCHANGED <<globals, workerLocals, notification, irq_enabled, pressed,
                   sockets, callback, iteration, lastSend>>

\* lines 226-231 and 440-517: cy_socket_create, the receive timeout, the
\* connect-request, receive and disconnect callbacks, cy_socket_bind
create_tcp_server_socket ==
    \/ CreateStep("create_socket", "set_rcvtimeo")
    \/ CreateStep("set_rcvtimeo", "reg_connect_cb")
    \/ CreateStep("reg_connect_cb", "reg_receive_cb")
    \/ CreateStep("reg_receive_cb", "reg_disconnect_cb")
    \/ CreateStep("reg_disconnect_cb", "bind")
    \/ CreateStep("bind", "listen")

\* lines 234-246: cy_socket_listen
SocketListen ==
    /\ w_pc = "listen"
    /\ \E r \in {CY_RSLT_SUCCESS, CY_RSLT_OTHER_ERROR} :
          IF r = CY_RSLT_SUCCESS THEN w_pc' = "wait" ELSE Abort
    /\ UNCHANGED <<globals, led_state_cmd, conn_retries, wifi_result, notification,
                   irq_enabled, pressed, sockets, callback, iteration, lastSend>>

\* ----------------------------------------------------- worker: dispatch loop
\* line 251: xTaskNotifyWait(0, 0, &led_state_cmd, portMAX_DELAY) returns
\* once a notification is pending, copies the value and takes the notification.
WorkerWait ==
    /\ w_pc = "wait"
    /\ notifyPending
    /\ led_state_cmd' = notifyValue
    /\ notifyPending' = FALSE
    /\ notifyDropped' = FALSE
    /\ w_pc' = "disable"
    /\ UNCHANGED <<globals, conn_retries, wifi_result, notifyValue, irq_enabled,
                   pressed, sockets, callback, iteration, lastSend>>

\* DisableValue when the event is left enabled.
DisableValueEnabled == TRUE

\* line 256: the enable argument of the cyhal_gpio_enable_event call
DisableValue == FALSE

\* line 256: falling-edge detection disabled
WorkerDisable ==
    /\ w_pc = "disable"
    /\ irq_enabled' = DisableValue
    /\ w_pc' = "debounce"
    /\ UNCHANGED <<globals, workerLocals, notification, pressed, sockets,
                   callback, iteration, lastSend>>

\* AfterSample without the test of the pin.
AfterSampleNoTest(isPressed) == "check_connected"

\* line 261: where the worker goes after the re-sample of the pin
AfterSample(isPressed) == IF isPressed THEN "check_connected" ELSE "enable"

\* lines 259-261: debounce delay, then the pin is sampled again
WorkerDebounce ==
    /\ w_pc = "debounce"
    /\ iter_sample' = IF pressed THEN "pressed" ELSE "released"
    /\ w_pc' = AfterSample(pressed)
    /\ iter_path' = IF w_pc' = "enable" THEN "not_pressed" ELSE iter_path
    /\ UNCHANGED <<globals, workerLocals, notification, irq_enabled, pressed,
                   sockets, callback, iter_sends, lastSend>>

\* AfterConnectedCheck without the test of the flag.
AfterConnectedCheckAlways(connected) == "send"

\* line 266: where the worker goes after reading the connected flag
AfterConnectedCheck(connected) == IF connected THEN "send" ELSE "enable"

\* line 266: the connected flag is read
WorkerCheckConnected ==
    /\ w_pc = "check_connected"
    /\ w_pc' = AfterConnectedCheck(client_connected)
    /\ iter_path' = IF w_pc' = "enable" THEN "not_connected" ELSE iter_path
    /\ UNCHANGED <<globals, workerLocals, notification, irq_enabled, pressed,
                   sockets, callback, iter_sample, iter_sends, lastSend>>

\* IoResults of a call that never returns.
IoResultsNone(hs, h) == {}

\* Results cy_socket_send and cy_socket_recv can return on a socket.  A live
\* socket transfers data or reports that the peer closed or another error.  A
\* deleted socket is a dangling handle: any outcome is possible.
IoResults(hs, h) == Results

RECURSIVE Pow256(_)
\* 256 to the power n
Pow256(n) == IF n = 0 THEN 1 ELSE 256 * Pow256(n - 1)

\* SentBytes with the most significant byte of the word first.
SentBytesBigEndian(word, len) ==
    [i \in 1..len |-> (word \div Pow256(4 - i)) % 256]

\* lines 269-270: the bytes cy_socket_send transmits from &led_state_cmd, a
\* uint32_t the little-endian CPU stores least significant byte first
SentBytes(word, len) ==
    [i \in 1..len |-> (word \div Pow256(i - 1)) % 256]

\* AfterSend with the teardown taken after every send.
AfterSendAlwaysTeardown(r) == "teardown"

\* lines 271-291: where the worker goes with the result of cy_socket_send
AfterSend(r) ==
    IF r = CY_RSLT_MODULE_SECURE_SOCKETS_CLOSED THEN "teardown" ELSE "enable"

\* CommandToSend with the command computed again from led_state at the send.
CommandRecomputed(cmd, led) == IF led THEN LED_OFF_CMD ELSE LED_ON_CMD

\* line 269: the command sent is the worker's led_state_cmd, the value the
\* wait of line 251 stored; led_state is not read
CommandToSend(cmd, led) == cmd

\* lines 268-286: cy_socket_send(client_handle, &led_state_cmd, 1, ...)
WorkerSend ==
    /\ w_pc = "send"
    /\ \E r \in IoResults(hstate, client_handle) :
          /\ w_pc' = AfterSend(r)
          /\ iter_path' = CASE r = CY_RSLT_SUCCESS -> "sent_ok"
                            [] r = CY_RSLT_MODULE_SECURE_SOCKETS_CLOSED -> "sent_closed"
                            [] OTHER -> "sent_other"
    /\ lastSend' = [handle |-> client_handle,
                    cmd |-> CommandToSend(led_state_cmd, led_state),
                    len |-> TCP_LED_CMD_LEN,
                    bytes |-> SentBytes(CommandToSend(led_state_cmd, led_state),
                                        TCP_LED_CMD_LEN),
                    live |-> Live(client_handle),
                    led |-> led_state]
    /\ iter_sends' = iter_sends + 1
    /\ UNCHANGED <<globals, workerLocals, notification, irq_enabled, pressed,
                   sockets, callback, iter_sample>>

\* lines 287-290: cy_socket_disconnect(client_handle, 0) and
\* cy_socket_delete(client_handle)
WorkerTeardown ==
    /\ w_pc = "teardown"
    /\ hstate' = SockRelease(hstate, client_handle)
    /\ releasedTwice' = (releasedTwice \/ ReleasedAgain(hstate, client_handle))
    /\ w_pc' = "enable"
    /\ UNCHANGED <<globals, workerLocals, notification, irq_enabled, pressed,
                   callback, iteration, lastSend>>

\* RearmValue when the event is left disabled.
RearmValueDisabled == FALSE

\* line 297: the enable argument of the last cyhal_gpio_enable_event call
RearmValue == TRUE

\* lines 297-298: falling-edge detection enabled again, the iteration ends
WorkerEnable ==
    /\ w_pc = "enable"
    /\ irq_enabled' = RearmValue
    /\ w_pc' = "wait"
    /\ iter_sample' = "none"
    /\ iter_sends' = 0
    /\ iter_path' = "none"
    /\ lastSend' = NoSend
    /\ UNCHANGED <<globals, workerLocals, notification, pressed, sockets,
                   callback>>

\* -------------------------------------------------- button and interrupt
\* IsrCommand with the two commands exchanged.
IsrCommandInverted(led) == IF led THEN LED_ON_CMD ELSE LED_OFF_CMD

\* lines 726-733: the command the ISR computes from led_state
IsrCommand(led) == IF led THEN LED_OFF_CMD ELSE LED_ON_CMD

\* NotifyValueAfter with eSetValueWithOverwrite.
NotifyValueOverwrite(pending, value, cmd) == cmd

\* lines 736-737: xTaskNotifyFromISR(..., eSetValueWithoutOverwrite, ...):
\* the value is written only when no notification is pending.
NotifyValueAfter(pending, value, cmd) == IF pending THEN value ELSE cmd

\* lines 718-741: isr_button_press
isr_button_press ==
    /\ notifyValue' = NotifyValueAfter(notifyPending, notifyValue, IsrCommand(led_state))
    /\ notifyPending' = TRUE
    /\ notifyDropped' = notifyPending

\* The pin goes low.  With the falling-edge event enabled the ISR runs.
ButtonPress ==
    /\ ~pressed
    /\ pressed' = TRUE
    /\ IF irq_enabled /\ w_pc # "aborted"
       THEN isr_button_press
       ELSE UNCHANGED notification
    /\ UNCHANGED <<globals, w_pc, workerLocals, irq_enabled, sockets,
                   callback, iteration, lastSend>>

\* The pin goes high again.
ButtonRelease ==
    /\ pressed
    /\ pressed' = FALSE
    /\ UNCHANGED <<globals, w_pc, workerLocals, notification, irq_enabled,
                   sockets, callback, iteration, lastSend>>

\* ------------------------------------------------------- callback context
\* The socket library invokes one handler at a time on its own thread: the
\* connect-request handler while the server listens, the receive and the
\* disconnect handler for a peer socket that is live at the time of the call.
CbConnectRequest ==
    /\ cb_pc = "idle"
    /\ Listening
    /\ cb_pc' = "conn_accept"
    /\ UNCHANGED <<globals, w_pc, workerLocals, notification, irq_enabled,
                   pressed, sockets, cb_handle, iteration, lastSend, rxLocals>>

CbReceive ==
    /\ cb_pc = "idle"
    /\ \E h \in Handles :
          /\ Live(h)
          /\ cb_handle' = h
    /\ cb_pc' = "recv"
    /\ UNCHANGED <<globals, w_pc, workerLocals, notification, irq_enabled,
                   pressed, sockets, iteration, lastSend, rxLocals>>

CbDisconnect ==
    /\ cb_pc = "idle"
    /\ \E h \in Handles :
          /\ Live(h)
          /\ cb_handle' = h
    /\ cb_pc' = "disc_release"
    /\ UNCHANGED <<globals, w_pc, workerLocals, notification, irq_enabled,
                   pressed, sockets, iteration, lastSend, rxLocals>>

\* Results of cy_socket_accept: it can succeed only while the library has a
\* socket to hand out.
AcceptResults == IF FreshHandles = {} THEN {CY_RSLT_OTHER_ERROR}
                 ELSE {CY_RSLT_SUCCESS, CY_RSLT_OTHER_ERROR}

\* AcceptedInto with the handle of the first peer kept.
AcceptedIntoFirst(old, new) == IF old = NoHandle THEN new ELSE old

\* line 545: a successful cy_socket_accept stores the new socket in
\* client_handle, whatever it held
AcceptedInto(old, new) == new

\* lines 544-551: cy_socket_accept(..., &client_handle).  A failed accept is
\* taken to leave client_handle, its output parameter, as it was.
tcp_connection_handler_accept ==
    /\ cb_pc = "conn_accept"
    /\ \E r \in AcceptResults :
          IF r = CY_RSLT_SUCCESS
          THEN /\ client_handle' = AcceptedInto(client_handle, NextHandle)
               /\ hstate' = [hstate EXCEPT ![NextHandle] = "open"]
               /\ cb_pc' = "ka_interval"
          ELSE /\ cb_pc' = "conn_accept_failed"
               /\ UNCHANGED <<client_handle, hstate>>
    /\ UNCHANGED <<client_connected, led_state, tcp_server_port, w_pc,
                   workerLocals, notification, irq_enabled, pressed, releasedTwice,
                   cb_handle, iteration, lastSend, rxLocals>>

\* tcp_connection_handler_accept_failed falling into the assignment of
\* line 594.
tcp_connection_handler_accept_failed_flagged ==
    /\ cb_pc = "conn_accept_failed"
    /\ client_connected' = TRUE
    /\ cb_pc' = "idle"
    /\ UNCHANGED <<client_handle, led_state, tcp_server_port, w_pc,
                   workerLocals, notification, irq_enabled, pressed, sockets,
                   cb_handle, iteration, lastSend, rxLocals>>

\* lines 596-604: the accept failed; the failure is printed and the handler
\* returns the error
tcp_connection_handler_accept_failed ==
    /\ cb_pc = "conn_accept_failed"
    /\ cb_pc' = "idle"
    /\ UNCHANGED <<globals, w_pc, workerLocals, notification, irq_enabled,
                   pressed, sockets, cb_handle, iteration, lastSend, rxLocals>>

\* lines 557-561, 567-571, 577-581, 587-591: a keep-alive option could not
\* be set, the handler returns the error
KeepAliveFailed(next) == "idle"

\* lines 553-591: one of the four keep-alive cy_socket_setsockopt calls
KeepAliveStep(here, next) ==
    /\ cb_pc = here
    /\ \E r \in {CY_RSLT_SUCCESS, CY_RSLT_OTHER_ERROR} :
          cb_pc' = IF r = CY_RSLT_SUCCESS THEN next ELSE KeepAliveFailed(next)
    /\ UNCHANGED <<globals, w_pc, workerLocals, notification, irq_enabled,
                   pressed, sockets, cb_handle, iteration, lastSend, rxLocals>>

KeepAlivePcs == {"ka_interval", "ka_count", "ka_idle_time", "ka_enable"}

tcp_connection_handler_keepalive ==
    \/ KeepAliveStep("ka_interval", "ka_count")
    \/ KeepAliveStep("ka_count", "ka_idle_time")
    \/ KeepAliveStep("ka_idle_time", "ka_enable")
    \/ KeepAliveStep("ka_enable", "conn_flag")

\* tcp_connection_handler_flag with led_state reset for the new peer.
tcp_connection_handler_flag_led_reset ==
    /\ cb_pc = "conn_flag"
    /\ client_connected' = TRUE
    /\ led_state' = FALSE
    /\ cb_pc' = "idle"
    /\ UNCHANGED <<client_handle, tcp_server_port, w_pc,
                   workerLocals, notification, irq_enabled, pressed, sockets,
                   cb_handle, iteration, lastSend, rxLocals>>

\* lines 594-604: client_connected = true, then the handler returns
tcp_connection_handler_flag ==
    /\ cb_pc = "conn_flag"
    /\ client_connected' = TRUE
    /\ cb_pc' = "idle"
    /\ UNCHANGED <<client_handle, led_state, tcp_server_port, w_pc,
                   workerLocals, notification, irq_enabled, pressed, sockets,
                   cb_handle, iteration, lastSend, rxLocals>>

\* lines 628-629: what cy_socket_recv leaves in bytes_received and in the
\* buffer when the peer sent data: at most the requested 20 bytes
RecvCount(data) ==
    IF Len(data) < MAX_TCP_RECV_BUFFER_SIZE THEN Len(data) ELSE MAX_TCP_RECV_BUFFER_SIZE

RecvInto(data) ==
    [i \in 1..MAX_TCP_RECV_BUFFER_SIZE |-> IF i <= Len(data) THEN data[i] ELSE 0]

\* line 634: the C index at which the terminator is written after n bytes
\* were received
TerminatorIndex(n) == n

\* line 634: message_buffer[bytes_received] = '\0'.  The C index n is
\* element n + 1 here; with n = 20 the byte lands behind the array.
Terminate(buf, n) ==
    IF n < MAX_TCP_RECV_BUFFER_SIZE THEN [buf EXCEPT ![n + 1] = 0] ELSE buf

\* The byte strcmp reads at C index i - 1 of a string; behind the last
\* element it finds the terminating NUL.
CharAt(str, i) == IF i <= Len(str) THEN str[i] ELSE 0

\* strcmp(a, b) == 0: both strings are walked until they differ or a NUL is
\* reached in both.
RECURSIVE StrcmpEqualFrom(_, _, _)
StrcmpEqualFrom(a, b, i) ==
    IF CharAt(a, i) # CharAt(b, i) THEN FALSE
    ELSE IF CharAt(a, i) = 0 THEN TRUE
    ELSE StrcmpEqualFrom(a, b, i + 1)

\* line 638: strcmp(message_buffer, "LED ON ACK") == 0
IsLedOnAckPrefix(buf) == SubSeq(buf, 1, Len(LedOnAck)) = LedOnAck

IsLedOnAck(buf) == StrcmpEqualFrom(buf, LedOnAck, 1)

\* lines 628-631 and 647-651: cy_socket_recv, the peer having sent one of
\* the byte strings of sent
ReceiveStep(sent) ==
    /\ cb_pc = "recv"
    /\ \E r \in IoResults(hstate, cb_handle) :
          CASE r = CY_RSLT_SUCCESS ->
                 /\ \E data \in sent :
                       /\ message_buffer' = RecvInto(data)
                       /\ bytes_received' = RecvCount(data)
                 /\ cb_pc' = "recv_parse"
                 /\ UNCHANGED cb_handle
            [] r = CY_RSLT_MODULE_SECURE_SOCKETS_CLOSED ->
                 /\ cb_pc' = "recv_release"
                 /\ UNCHANGED <<cb_handle, rxLocals>>
            [] OTHER ->
                 /\ cb_pc' = "idle"
                 /\ cb_handle' = NoHandle
                 /\ UNCHANGED rxLocals
    /\ UNCHANGED <<globals, w_pc, workerLocals, notification, irq_enabled,
                   pressed, sockets, iteration, lastSend>>

tcp_receive_msg_handler_recv == ReceiveStep(Messages)

\* lines 633-645 and 660-663: the string is terminated and compared, led_state
\* is set, then the handler returns
tcp_receive_msg_handler_parse ==
    /\ cb_pc = "recv_parse"
    /\ led_state' = IsLedOnAck(Terminate(message_buffer, bytes_received))
    /\ cb_pc' = "idle"
    /\ cb_handle' = NoHandle
    /\ message_buffer' = EmptyBuffer
    /\ bytes_received' = 0
    /\ UNCHANGED <<client_handle, client_connected, tcp_server_port, w_pc,
                   workerLocals, notification, irq_enabled, pressed, sockets,
                   iteration, lastSend>>

\* lines 653-663: cy_socket_disconnect(socket_handle, 0) and
\* cy_socket_delete(socket_handle), then the handler returns
tcp_receive_msg_handler_release ==
    /\ cb_pc = "recv_release"
    /\ hstate' = SockRelease(hstate, cb_handle)
    /\ releasedTwice' = (releasedTwice \/ ReleasedAgain(hstate, cb_handle))
    /\ cb_pc' = "idle"
    /\ cb_handle' = NoHandle
    /\ UNCHANGED <<globals, w_pc, workerLocals, notification, irq_enabled,
                   pressed, iteration, lastSend, rxLocals>>

\* lines 684-687: cy_socket_disconnect(socket_handle, 0) and
\* cy_socket_delete(socket_handle)
tcp_disconnection_handler_release ==
    /\ cb_pc = "disc_release"
    /\ hstate' = SockRelease(hstate, cb_handle)
    /\ releasedTwice' = (releasedTwice \/ ReleasedAgain(hstate, cb_handle))
    /\ cb_pc' = "disc_flag"
    /\ UNCHANGED <<globals, w_pc, workerLocals, notification, irq_enabled,
                   pressed, cb_handle, iteration, lastSend, rxLocals>>

\* line 690: client_connected = false
tcp_disconnection_handler_flag ==
    /\ cb_pc = "disc_flag"
    /\ client_connected' = FALSE
    /\ cb_pc' = "disc_led"
    /\ UNCHANGED <<client_handle, led_state, tcp_server_port, w_pc,
                   workerLocals, notification, irq_enabled, pressed, sockets,
                   cb_handle, iteration, lastSend, rxLocals>>

\* tcp_disconnection_handler_led without the assignment of line 697.
tcp_disconnection_handler_led_kept ==
    /\ cb_pc = "disc_led"
    /\ cb_pc' = "idle"
    /\ cb_handle' = NoHandle
    /\ UNCHANGED <<globals, w_pc, workerLocals, notification, irq_enabled,
                   pressed, sockets, iteration, lastSend, rxLocals>>

\* lines 697-699: led_state = CYBSP_LED_STATE_OFF, then the handler returns
tcp_disconnection_handler_led ==
    /\ cb_pc = "disc_led"
    /\ led_state' = FALSE
    /\ cb_pc' = "idle"
    /\ cb_handle' = NoHandle
    /\ UNCHANGED <<client_handle, client_connected, tcp_server_port, w_pc,
                   workerLocals, notification, irq_enabled, pressed, sockets,
                   iteration, lastSend, rxLocals>>

\* ------------------------------------------------------------ specification
Next ==
    \/ GpioInit
    \/ WcmInit
    \/ connect_to_wifi_ap_attempt
    \/ connect_to_wifi_ap_exhausted
    \/ SocketInit
    \/ create_tcp_server_socket
    \/ SocketListen
    \/ WorkerWait
    \/ WorkerDisable
    \/ WorkerDebounce
    \/ WorkerCheckConnected
    \/ WorkerSend
    \/ WorkerTeardown
    \/ WorkerEnable
    \/ ButtonPress
    \/ ButtonRelease
    \/ CbConnectRequest
    \/ CbReceive
    \/ CbDisconnect
    \/ tcp_connection_handler_accept
    \/ tcp_connection_handler_accept_failed
    \/ tcp_connection_handler_keepalive
    \/ tcp_connection_handler_flag
    \/ tcp_receive_msg_handler_recv
    \/ tcp_receive_msg_handler_parse
    \/ tcp_receive_msg_handler_release
    \/ tcp_disconnection_handler_release
    \/ tcp_disconnection_handler_flag
    \/ tcp_disconnection_handler_led

Spec == Init /\ [][Next]_vars

\* One step of the body of the dispatch loop, lines 256-297.
WorkerIteration ==
    \/ WorkerDisable
    \/ WorkerDebounce
    \/ WorkerCheckConnected
    \/ WorkerSend
    \/ WorkerTeardown
    \/ WorkerEnable

\* The program with a scheduler that keeps running the worker while it is
\* ready: the debounce delay expires and the socket calls return.
FairSpec == Spec /\ WF_vars(WorkerIteration)

\* The receive handler on its own, fed with arbitrary peer data: one peer is
\* connected, the worker waits for a notification and the handler has just
\* been invoked for the peer's socket.
InitRecv ==
    /\ client_handle = 1
    /\ client_connected = TRUE
    /\ led_state = FALSE
    /\ tcp_server_port = TCP_SERVER_PORT
    /\ w_pc = "wait"
    /\ led_state_cmd = LED_OFF_CMD
    /\ conn_retries = 0
    /\ wifi_result = CY_RSLT_SUCCESS
    /\ notifyPending = FALSE
    /\ notifyValue = 0
    /\ notifyDropped = FALSE
    /\ irq_enabled = TRUE
    /\ pressed = FALSE
    /\ hstate = [h \in Handles |-> IF h = 1 THEN "open" ELSE "unused"]
    /\ releasedTwice = FALSE
    /\ cb_pc = "recv"
    /\ cb_handle = 1
    /\ message_buffer = EmptyBuffer
    /\ bytes_received = 0
    /\ iter_sample = "none"
    /\ iter_sends = 0
    /\ iter_path = "none"
    /\ lastSend = NoSend

tcp_receive_msg_handler_recv_any == ReceiveStep(PeerData)

NextRecv ==
    \/ CbReceive
    \/ tcp_receive_msg_handler_recv_any
    \/ tcp_receive_msg_handler_parse
    \/ tcp_receive_msg_handler_release

SpecRecv == InitRecv /\ [][NextRecv]_vars

TypeOK ==
    /\ client_handle \in Handles \cup {NoHandle}
    /\ client_connected \in BOOLEAN
    /\ led_state \in BOOLEAN
    /\ w_pc \in SetupPcs \cup LoopPcs \cup {"aborted"}
    /\ led_state_cmd \in {LED_ON_CMD, LED_OFF_CMD}
    /\ notifyValue \in {0, LED_ON_CMD, LED_OFF_CMD}
    /\ notifyPending \in BOOLEAN /\ notifyDropped \in BOOLEAN
    /\ conn_retries \in 0..MAX_WIFI_CONN_RETRIES
    /\ wifi_result \in {CY_RSLT_SUCCESS} \cup JoinErrors
    /\ hstate \in [Handles -> {"unused", "open", "deleted"}]
    /\ releasedTwice \in BOOLEAN
    /\ bytes_received \in 0..MAX_TCP_RECV_BUFFER_SIZE

\* ------------------------------------------------------------------ claims
\* No handler and no teardown of the worker is part-way through.
Quiescent == cb_pc = "idle" /\ w_pc # "teardown"

LiveHandles == {h \in Handles : Live(h)}

\* C1: whenever no handler or teardown is part-way through, client_connected
\* is true if and only if a live peer handle exists.
C1_FlagIffLiveHandle ==
    Quiescent => (client_connected <=> LiveHandles # {})

\* C2: every cy_socket_send of the worker is issued on a handle that is live
\* at the moment of the send.
C2_SendOnLiveHandle ==
    iter_sends > 0 => lastSend.live

\* C3: when the worker has torn the connection down after a send that failed
\* with "closed", the handle is released and client_connected is false.
C3_SendClosedClearsRegistry ==
    [][(w_pc = "teardown" /\ w_pc' = "enable")
          => (~client_connected' /\ ~Live(client_handle)')]_vars

\* C4: when the receive handler returns after cy_socket_recv reported
\* "closed", the socket is released and client_connected is false.
C4_RecvClosedClearsRegistry ==
    [][(cb_pc = "recv_release" /\ cb_pc' = "idle")
          => (~client_connected' /\ ~Live(cb_handle)')]_vars

\* C5: cy_socket_delete is called at most once on every accepted handle.
C5_ReleasedAtMostOnce ==
    ~releasedTwice

\* C6: a connect request that arrives while a peer is registered is rejected:
\* client_handle and client_connected keep their values and the handler
\* returns, and at most one accepted peer is live at any time.
C6_AlreadyConnectedRejected ==
    [][(cb_pc = "conn_accept" /\ cb_pc' # "conn_accept"
             /\ client_connected /\ Live(client_handle))
            => /\ cb_pc' \in {"idle", "conn_accept_failed"}
               /\ UNCHANGED <<client_handle, client_connected, hstate>>]_vars

\* C7: when a keep-alive configuration step fails after a successful accept,
\* the handler still returns with the accepted peer registered as connected.
C7_KeepAliveFailureNonFatal ==
    [][(cb_pc \in KeepAlivePcs /\ cb_pc' = "idle")
          => (client_connected' /\ Live(client_handle)')]_vars

\* C8: whenever the worker is suspended on the notification wait, the
\* falling-edge interrupt of the button is enabled.
C8_RearmedAtWait ==
    w_pc = "wait" => irq_enabled

\* The worker waits again after an iteration that consumed an ON command.
C8_Witness ==
    w_pc = "wait" /\ irq_enabled /\ led_state_cmd = LED_ON_CMD /\ ~notifyPending

\* C9: in an iteration whose re-sample after the debounce delay found the
\* button released, the worker performs no send and goes straight to the
\* re-arm, whatever client_connected is.
C9_NoSendWhenReleased ==
    iter_sample = "released" => (iter_sends = 0 /\ w_pc = "enable")

\* The button was released inside the debounce window while a peer is
\* connected.
C9_Witness ==
    iter_sample = "released" /\ client_connected /\ Live(client_handle)

\* The interrupt handler runs in this step.
IsrRuns == ~pressed /\ pressed' /\ irq_enabled /\ w_pc # "aborted"

\* C10: a post made while a notification is pending is dropped and leaves the
\* pending value unchanged; a pending notification goes away only by the
\* worker taking exactly that value, and every pass of the worker through
\* the wait takes one pending notification, so a dropped post adds no
\* iteration of its own.
C10_KeepFirstSingleSlot ==
    [][/\ (IsrRuns /\ notifyPending)
            => (notifyPending' /\ notifyValue' = notifyValue /\ notifyDropped')
       /\ (IsrRuns /\ ~notifyPending)
            => (notifyPending' /\ notifyValue' = IsrCommand(led_state) /\ ~notifyDropped')
       /\ (notifyPending /\ ~notifyPending')
            => (w_pc = "wait" /\ w_pc' = "disable" /\ led_state_cmd' = notifyValue)
       /\ (w_pc = "wait" /\ w_pc' # "wait")
            => (notifyPending /\ ~notifyPending' /\ ~notifyDropped')]_vars

\* A post that computed OFF was dropped while the pending ON value is still
\* unread.
C10_Witness ==
    /\ notifyPending /\ notifyDropped
    /\ notifyValue = LED_ON_CMD
    /\ led_state
    /\ pressed

\* ---------------------------------------------------------------------
\* C15

\* The bytes the receive handler has received, while it is about to parse
\* them.
Received == SubSeq(message_buffer, 1, bytes_received)

\* The receive handler parses the received bytes and returns.
ParseReturns == cb_pc = "recv_parse" /\ cb_pc' = "idle"

\* C15 as stated: the receive handler sets led_state to TRUE exactly when
\* the received bytes are the bytes of "LED ON ACK", and to FALSE for any
\* other received bytes, longer ones included.
C15_ExactComparison ==
    [][ParseReturns => led_state' = (Received = LedOnAck)]_vars

\* The position of the first NUL byte of a byte string, or one past its end
\* when it has none.
FirstNul(str) ==
    IF \E i \in 1..Len(str) : str[i] = 0
    THEN CHOOSE i \in 1..Len(str) :
             str[i] = 0 /\ \A j \in 1..(i - 1) : str[j] # 0
    ELSE Len(str) + 1

\* The text a byte string holds: its bytes before the first NUL byte.
TextOf(str) == SubSeq(str, 1, FirstNul(str) - 1)

\* C15, amended: the receive handler sets led_state to TRUE exactly when the
\* received bytes before the first NUL byte (all of them when none is NUL)
\* are the bytes of "LED ON ACK", and to FALSE otherwise; it returns either
\* way.
C15_ComparisonUpToNul ==
    [][ParseReturns => led_state' = (TextOf(Received) = LedOnAck)]_vars

\* C15: the LED is on after an earlier acknowledgement and the handler is
\* about to parse the partial text "LED ON".
C15_Witness ==
    /\ cb_pc = "recv_parse"
    /\ led_state
    /\ Received = SubSeq(LedOnAck, 1, 6)

\* ---------------------------------------------------------------------
\* C11

\* C11: the command an interrupt posts into the empty notification slot is
\* ON ('1') exactly when led_state is FALSE and OFF ('0') exactly when it is
\* TRUE; the receive handler sets led_state to TRUE when it has received the
\* bytes "LED ON ACK", so the press after that acknowledgement posts OFF.
C11_ToggleLaw ==
    [][/\ (IsrRuns /\ ~notifyPending /\ ~led_state)
            => (notifyPending' /\ notifyValue' = LED_ON_CMD)
       /\ (IsrRuns /\ ~notifyPending /\ led_state)
            => (notifyPending' /\ notifyValue' = LED_OFF_CMD)
       /\ (ParseReturns /\ Received = LedOnAck) => led_state'
      ]_vars

\* C11: the worker has taken an ON command, the acknowledgement has set
\* led_state and the next press has posted OFF.
C11_Witness ==
    /\ led_state
    /\ client_connected
    /\ led_state_cmd = LED_ON_CMD
    /\ w_pc = "wait"
    /\ notifyPending
    /\ notifyValue = LED_OFF_CMD

\* ---------------------------------------------------------------------
\* C12

\* The disconnection handler returns.
DisconnectReturns == cb_pc = "disc_led" /\ cb_pc' = "idle"

\* C12: when the disconnection handler returns, whatever led_state and
\* client_connected were when it was invoked, led_state is FALSE,
\* client_connected is FALSE, the socket it was invoked for is released and
\* the registry's handle refers to no live socket.
C12_DisconnectCleanup ==
    [][DisconnectReturns =>
          /\ ~led_state'
          /\ ~client_connected'
          /\ hstate'[cb_handle] = "deleted"
          /\ ~Live(client_handle)']_vars

\* ---------------------------------------------------------------------
\* C13

\* The shared state: the connected flag, the live peer sockets and led_state.
SharedState == <<client_connected, LiveHandles, led_state>>

\* The shared state with no peer.
Unconnected == <<FALSE, {}, FALSE>>

\* No peer has connected yet.
NoPeerYet == \A h \in Handles : hstate[h] = "unused"

\* The socket the running handler was invoked for is the only one accepted
\* so far.
OnlyPeer == \A h \in Handles \ {cb_handle} : hstate[h] = "unused"

\* C13: before the first peer connects the shared state is (flag FALSE, no
\* live peer socket, led_state FALSE), and when the disconnection handler
\* returns for that peer, after whatever sends and acknowledgements, the
\* shared state is exactly that again.
C13_RoundTrip ==
    [][/\ NoPeerYet => SharedState = Unconnected
       /\ (DisconnectReturns /\ OnlyPeer) => SharedState' = Unconnected
      ]_vars

\* C13: the peer has connected, the worker has sent ON to it successfully,
\* its "LED ON ACK" has set led_state, it has disconnected and the
\* disconnection handler is about to return.
C13_Witness ==
    /\ cb_pc = "disc_led"
    /\ OnlyPeer
    /\ hstate[cb_handle] = "deleted"
    /\ led_state
    /\ iter_path = "sent_ok"
    /\ lastSend.cmd = LED_ON_CMD
    /\ lastSend.handle = cb_handle

\* ---------------------------------------------------------------------
\* C14

\* The registry, the peer sockets and led_state are left as they are.
RegistryAndLedKept ==
    UNCHANGED <<client_handle, client_connected, hstate, releasedTwice,
                led_state>>

\* C14: when the worker, processing a debounced press, reads
\* client_connected as FALSE, it goes straight to re-enabling the interrupt
\* source: it has sent nothing in this iteration and has not aborted, its
\* steps leave the registry, the sockets and led_state unchanged, and its
\* next step enables the falling-edge event and returns to the wait.
C14_NoPeerNoOp ==
    [][/\ (w_pc = "check_connected" /\ w_pc' # w_pc /\ ~client_connected)
            => /\ w_pc' = "enable"
               /\ iter_sends' = 0
               /\ iter_sample' = "pressed"
               /\ RegistryAndLedKept
       /\ iter_path = "not_connected"
            => (w_pc = "enable" /\ iter_sends = 0)
       /\ (iter_path = "not_connected" /\ w_pc' # w_pc)
            => /\ w_pc' = "wait"
               /\ irq_enabled'
               /\ RegistryAndLedKept
      ]_vars

\* C14: a debounced press has been processed with no peer connected, nothing
\* was sent and the worker is at the call that re-enables the interrupt
\* source.
C14_Witness ==
    /\ iter_path = "not_connected"
    /\ iter_sample = "pressed"
    /\ ~client_connected
    /\ LiveHandles = {}
    /\ w_pc = "enable"

\* ---------------------------------------------------------------------
\* C16

\* The send of this iteration succeeded or failed with a result other than
\* "closed".
SentNotClosed == iter_path \in {"sent_ok", "sent_other"}

\* C16: a send that succeeds or fails with a result other than "closed"
\* takes the worker straight to re-enabling the interrupt source, as the
\* only send of the iteration; that step and the worker's next one leave
\* client_connected, client_handle and the sockets unchanged, and the next
\* one returns to the wait, so that another send needs another notification.
C16_SendKeepsRegistry ==
    [][/\ (w_pc = "send" /\ SentNotClosed')
            => /\ w_pc' = "enable"
               /\ iter_sends' = 1
               /\ RegistryAndLedKept
       /\ SentNotClosed => (w_pc = "enable" /\ iter_sends = 1)
       /\ (SentNotClosed /\ w_pc' # w_pc)
            => /\ w_pc' = "wait"
               /\ RegistryAndLedKept
      ]_vars

\* C16: a send to the connected peer has failed with a result other than
\* "closed" and the peer is still registered and its socket open.
C16_Witness ==
    /\ iter_path = "sent_other"
    /\ client_connected
    /\ lastSend.handle = client_handle
    /\ hstate[client_handle] = "open"
    /\ w_pc = "enable"

\* ---------------------------------------------------------------------
\* C17

\* C17: when cy_socket_accept fails, the handler changes neither
\* client_connected nor client_handle, the sockets or led_state, and returns;
\* the worker is not aborted and the server still listens, so that the next
\* connect request can invoke the handler again.
C17_AcceptFailureNonFatal ==
    [][/\ (cb_pc = "conn_accept" /\ cb_pc' = "conn_accept_failed")
            => RegistryAndLedKept
       /\ (cb_pc = "conn_accept_failed" /\ cb_pc' # cb_pc)
            => /\ cb_pc' = "idle"
               /\ RegistryAndLedKept
               /\ Listening'
               /\ (ENABLED CbConnectRequest)'
      ]_vars

\* C17: cy_socket_accept has failed while a peer is registered and its
\* socket open.
C17_Witness ==
    /\ cb_pc = "conn_accept_failed"
    /\ client_connected
    /\ Live(client_handle)

\* ---------------------------------------------------------------------
\* C18

\* C18: between two waits for a notification the worker calls
\* cy_socket_send at most once, and every call transmits exactly one byte,
\* which is 49 (ASCII '1') or 48 (ASCII '0').
C18_OneCommandByte ==
    /\ iter_sends <= 1
    /\ iter_sends > 0
          => /\ Len(lastSend.bytes) = 1
             /\ lastSend.bytes[1] \in {49, 48}

\* C18: the worker has sent the single byte '1' in this iteration.
C18_Witness ==
    /\ iter_sends = 1
    /\ lastSend.bytes = <<49>>

\* ---------------------------------------------------------------------
\* C19

\* C19: the disconnection handler does not disconnect and delete a socket
\* that is already released: it makes the two calls only on a socket that
\* is still open, and it returns with client_connected FALSE and led_state
\* FALSE either way.
C19_DisconnectIdempotent ==
    [][/\ (cb_pc = "disc_release" /\ cb_pc' # cb_pc)
            => hstate[cb_handle] = "open"
       /\ DisconnectReturns
            => (~client_connected' /\ ~led_state')
      ]_vars

\* ---------------------------------------------------------------------
\* C20

\* C20 as stated: led_state changes only in the step of the receive handler
\* that parses the received bytes; no step of the worker, of the interrupt
\* handler, of the connection handler or of the disconnection handler
\* changes it.
C20_OnlyReceiveWrites ==
    [][led_state' # led_state => cb_pc = "recv_parse"]_vars

\* C20, amended: led_state changes only in the step of the receive handler
\* that parses the received bytes and in the last step of the disconnection
\* handler, which sets it to FALSE; no step of the worker, of the interrupt
\* handler or of the connection handler changes it.
C20_ReceiveAndDisconnectWrite ==
    [][led_state' # led_state =>
          \/ cb_pc = "recv_parse" /\ cb_pc' = "idle"
          \/ cb_pc = "disc_led" /\ cb_pc' = "idle" /\ ~led_state'
      ]_vars

\* C20: the receive handler has set led_state, the peer has disconnected
\* and the disconnection handler is about to reset it.
C20_Witness ==
    /\ cb_pc = "disc_led"
    /\ led_state

\* ---------------------------------------------------------------------
\* C21

\* The worker is between the call that disables the falling-edge event
\* (line 256) and the call that enables it again (line 297).
DebounceWindow ==
    w_pc \in {"debounce", "check_connected", "send", "teardown", "enable"}

\* C21: from the moment the worker has disabled the falling-edge event until
\* it enables it again the event stays disabled and no step, a button edge
\* included, posts a notification or changes the pending one, so the edges
\* of that window add no iteration.
C21_CoalescedInWindow ==
    [][DebounceWindow => (~irq_enabled /\ UNCHANGED notification)]_vars

\* C21: the pin was high when the worker sampled it after the debounce delay
\* and has gone low since, inside the window, and no notification is
\* pending.
C21_Witness ==
    /\ w_pc = "enable"
    /\ iter_sample = "released"
    /\ pressed
    /\ ~notifyPending

\* ---------------------------------------------------------------------
\* C22

\* C22: every iteration of the worker ends: once the worker has taken a
\* notification it eventually waits for the next one with the falling-edge
\* event enabled again, whatever the pin reads, whether a peer is connected
\* and whatever cy_socket_send returns.
C22_IterationTerminates ==
    (w_pc = "disable") ~> (w_pc = "wait" /\ irq_enabled)

\* C22: the send of the iteration has reported the peer closed and the
\* worker is about to tear the connection down, the longest path through
\* the loop body.
C22_Witness ==
    /\ w_pc = "teardown"
    /\ iter_path = "sent_closed"

\* ---------------------------------------------------------------------
\* C23

\* C23: whenever the receive handler is about to write the string
\* terminator, whatever the number of bytes received (0 to 20), the index it
\* writes at is at most 19, the last index of the 20-byte buffer.
C23_TerminatorInsideBuffer ==
    cb_pc = "recv_parse"
        => TerminatorIndex(bytes_received) <= MAX_TCP_RECV_BUFFER_SIZE - 1

\* ---------------------------------------------------------------------
\* C24

Accepted == {h \in Handles : hstate[h] # "unused"}

\* C25: a successful accept registers a socket that no earlier peer had, the
\* handler that completes the keep-alive set-up sets client_connected, and
\* every send of the worker goes to the most recently accepted socket: after
\* a reconnection never to the socket of a previous peer.
C25_ReconnectUsesNewHandle ==
    [][/\ (cb_pc = "conn_accept" /\ cb_pc' = "ka_interval")
            => /\ hstate[client_handle'] = "unused"
               /\ hstate'[client_handle'] = "open"
       /\ (cb_pc = "conn_flag" /\ cb_pc' # cb_pc) => client_connected'
       /\ (w_pc = "send" /\ w_pc' # w_pc)
            => /\ lastSend'.handle = client_handle
               /\ \A h \in Accepted : h <= lastSend'.handle
      ]_vars

\* C25: the first peer's socket is released, a second peer has been
\* accepted and registered, and the worker has sent a command successfully
\* on the second peer's open socket.
C25_Witness ==
    /\ hstate[1] = "deleted"
    /\ client_connected
    /\ client_handle = 2
    /\ iter_path = "sent_ok"
    /\ lastSend.handle = 2
    /\ lastSend.live

\* ---------------------------------------------------------------------
\* C26

\* The worker is in the join loop of connect_to_wifi_ap.
Joining == w_pc = "connect_wifi"

\* C26: the join loop never counts more than 10 failed attempts; every step
\* of it either counts one more failed attempt and keeps its error, or
\* returns.  It returns success at the first attempt that succeeds, with the
\* port 50007 recorded, after fewer than 10 failures; it returns an error,
\* that of the attempt made last, exactly when 10 attempts have failed, and
\* then the task halts.
C26_JoinBounded ==
    [][/\ conn_retries <= 10
       /\ (Joining /\ Joining' /\ w_pc' = w_pc /\ conn_retries' # conn_retries)
            => /\ conn_retries' = conn_retries + 1
               /\ conn_retries' <= 10
               /\ wifi_result' \in JoinErrors
       /\ (Joining /\ w_pc' = "socket_init")
            => /\ conn_retries < 10
               /\ wifi_result' = CY_RSLT_SUCCESS
               /\ tcp_server_port' = 50007
       /\ (Joining /\ w_pc' = "aborted")
            => /\ conn_retries = 10
               /\ wifi_result \in JoinErrors
               /\ wifi_result' = wifi_result
       /\ (Joining /\ conn_retries = 10) => w_pc' \in {"connect_wifi", "aborted"}
      ]_vars

\* C26: ten attempts have failed and the join has returned the error.
C26_Witness ==
    /\ w_pc = "aborted"
    /\ conn_retries = 10
    /\ wifi_result \in JoinErrors

\* ---------------------------------------------------------------------
\* C27

\* The setup steps in the order the claim gives them.
SetupOrder ==
    <<"gpio_init", "wcm_init", "connect_wifi", "socket_init", "create_socket",
      "set_rcvtimeo", "reg_connect_cb", "reg_receive_cb", "reg_disconnect_cb",
      "bind", "listen", "wait">>

\* C27: the worker goes through Wi-Fi manager init, network join, socket
\* library init, socket creation (receive timeout, the three callbacks, bind)
\* and listen in that order, each step entered only from the success of the
\* one before, and enters the loop only from a successful listen; a failed
\* step halts the task, and the halted task never moves again, takes no
\* notification and sends nothing.
C27_SetupOrderAndAbort ==
    [][/\ w_pc' # w_pc =>
            \/ \E i \in 1..(Len(SetupOrder) - 1) :
                  w_pc = SetupOrder[i] /\ w_pc' = SetupOrder[i + 1]
            \/ w_pc \in SetupPcs \ {"gpio_init"} /\ w_pc' = "aborted"
            \/ w_pc \in LoopPcs /\ w_pc' \in LoopPcs
       /\ w_pc = "aborted" =>
            /\ w_pc' = "aborted"
            /\ UNCHANGED <<notification, led_state_cmd, iter_sends, lastSend>>
            /\ iter_sends = 0
       /\ w_pc \in SetupPcs => (iter_sends = 0 /\ led_state_cmd = LED_OFF_CMD)
      ]_vars

\* C27: a setup step after the join has failed and the task is halted
\* while a notification posted by a button press is pending.
C27_Witness ==
    /\ w_pc = "aborted"
    /\ tcp_server_port = TCP_SERVER_PORT
    /\ notifyPending

====
